---- MODULE Spec2Model ----
(***************************************************************************)
(* A state-machine model of reportit: the hook manager (hooks.py), the     *)
(* dispatcher (reporter.py), the sinks (bridges.py), the configuration     *)
(* (config.py), the payload builder (utils.py) and the public entry points *)
(* (__init__.py).                                                          *)
(*                                                                         *)
(* Python values are modelled as follows.  None is the string "None".      *)
(* Optional[bool] is one of "None", "True", "False".  A reference to a     *)
(* Reporter object is its index in the heap `reporters`, 0 for None.       *)
(* Hooks (callables) are strings naming them; this package's own handlers  *)
(* are "_exception_handler" and "_thread_exception_handler".  An error is  *)
(* the name of its class; what an except clause catches is decided by      *)
(* IsInstance, the class hierarchy.  Text whose characters matter (the     *)
(* environment variable) is a sequence of one-character strings.           *)
(***************************************************************************)
EXTENDS Integers, Sequences, FiniteSets, TLC

None == "None"

NoRef == 0

(* ---------------------------------------------------------------------- *)
(* Bounds of the model                                                     *)
(* ---------------------------------------------------------------------- *)

\* Reporter objects that can be constructed in one behaviour.
MaxReporters == 2

\* Longest sink list injected into a Reporter.
MaxSinks == 2

\* Install cycles begun by install_hooks() in one behaviour.
MaxCycles == 2

\* Records in an observed log file after which no further report is made.
MaxRecords == 3

\* Nested calls of a handler after which the interpreter raises
\* RecursionError (sys.getrecursionlimit(), scaled down).
RecursionLimit == 3

\* Worker threads that run beside the main thread.
MaxThreads == 1

(* ---------------------------------------------------------------------- *)
(* Python semantics used by the code                                       *)
(* ---------------------------------------------------------------------- *)

\* isinstance(error, cls): the part of the exception class hierarchy the
\* except clauses of the package discriminate on.  URLError derives from
\* OSError, UnicodeEncodeError from ValueError, http.client.HTTPException
\* and RuntimeError from Exception, KeyboardInterrupt from BaseException only.
IsInstance(kind, cls) ==
    CASE cls = "BaseException" -> TRUE
      [] cls = "Exception" -> kind # "KeyboardInterrupt"
      [] cls = "OSError" -> kind \in {"OSError", "URLError"}
      [] cls = "ValueError" -> kind \in {"ValueError", "UnicodeEncodeError"}
      [] OTHER -> kind = cls

\* Truth value of an optional string or hook: None and "" are falsy.
Truthy(v) == v # None /\ v # ""

\* `a or b`
Or(a, b) == IF Truthy(a) THEN a ELSE b

\* str.lower(), character by character, on the letters the model uses.
LowerChar(c) ==
    CASE c = "T" -> "t" [] c = "R" -> "r" [] c = "U" -> "u" [] c = "E" -> "e"
      [] c = "Y" -> "y" [] c = "S" -> "s" [] c = "O" -> "o" [] c = "N" -> "n"
      [] c = "F" -> "f" [] c = "A" -> "a" [] c = "L" -> "l"
      [] OTHER -> c

Lower(s) == [i \in DOMAIN s |-> LowerChar(s[i])]

\* os.getenv(name, default) on the one variable the package reads.
GetEnv(e, default) == IF e.set THEN e.value ELSE default

(* ---------------------------------------------------------------------- *)
(* config.py                                                               *)
(* ---------------------------------------------------------------------- *)

DEFAULT_BRIDGE == "file"
DEFAULT_HTTP_ENDPOINT == "http://localhost:7331/exception"
DEFAULT_LOG_FILE == ".cursor/exceptions.log"

\* Config.__init__
Config(enabled, bridge, http_endpoint, log_file) ==
    [enabled |-> enabled,
     bridge |-> Or(bridge, DEFAULT_BRIDGE),
     http_endpoint |-> Or(http_endpoint, DEFAULT_HTTP_ENDPOINT),
     log_file |-> Or(log_file, DEFAULT_LOG_FILE)]

\* Config._is_enabled_from_env comparing the value as it is spelled.
is_enabled_from_env_case_sensitive(e) ==
    GetEnv(e, <<>>) \in
        {<<"t", "r", "u", "e">>, <<"1">>, <<"y", "e", "s">>, <<"o", "n">>}

\* Config._is_enabled_from_env
is_enabled_from_env(e) ==
    Lower(GetEnv(e, <<>>)) \in
        {<<"t", "r", "u", "e">>, <<"1">>, <<"y", "e", "s">>, <<"o", "n">>}

\* Config.enabled that lets a set environment variable override the flag.
ConfigEnabled_env_first(config, e) ==
    IF e.set THEN is_enabled_from_env(e)
    ELSE config.enabled = "True"

\* Config.enabled (a property: evaluated at every read, against the
\* environment of that moment)
ConfigEnabled(config, e) ==
    IF config.enabled # None THEN config.enabled = "True"
    ELSE is_enabled_from_env(e)

(* ---------------------------------------------------------------------- *)
(* utils.py                                                                *)
(* ---------------------------------------------------------------------- *)

\* get_thread_info: the execution unit that runs the report.
get_thread_info(unit) ==
    [thread_name |-> unit, is_main_thread |-> (unit = "MainThread")]

\* create_exception_payload; the timestamp (wall clock) is left out.  An
\* exception type is a record with its __name__, an exception value a
\* record with the text str() gives.
create_exception_payload(exc, scope, unit) ==
    LET payload == [exception_type |-> exc.exc_type.name,
                    exception_message |-> exc.exc_value.str,
                    traceback |-> <<exc.exc_type.name, exc.exc_value.str,
                                    exc.exc_traceback>>,
                    thread_info |-> get_thread_info(unit)]
    IN  IF Truthy(scope)
        THEN [k \in DOMAIN payload \cup {"scope"} |->
                 IF k = "scope" THEN scope ELSE payload[k]]
        ELSE payload

\* format_payload_as_text: the text of one record, line by line, each line
\* its label and what follows it.  The header line is "Exception Report"
\* and the timestamp (left out); the Scope line is there when the payload
\* has the key.
format_payload_as_text(payload) ==
    <<[label |-> "Exception Report", value |-> ""],
      [label |-> "Type", value |-> payload.exception_type],
      [label |-> "Message", value |-> payload.exception_message]>>
    \o (IF "scope" \in DOMAIN payload
        THEN <<[label |-> "Scope", value |-> payload.scope]>> ELSE <<>>)
    \o <<[label |-> "Thread", value |-> payload.thread_info.thread_name],
         [label |-> "Main Thread",
          value |-> IF payload.thread_info.is_main_thread
                    THEN "True" ELSE "False"],
         [label |-> "Traceback", value |-> payload.traceback[1]],
         [label |-> "Traceback", value |-> payload.traceback[2]],
         [label |-> "Traceback", value |-> payload.traceback[3]]>>

(* ---------------------------------------------------------------------- *)
(* bridges.py                                                              *)
(* ---------------------------------------------------------------------- *)

\* os.path.dirname on the paths the model uses.
DirName(path) ==
    CASE path = ".cursor/exceptions.log" -> ".cursor"
      [] path = "/var/log/app/exceptions.log" -> "/var/log/app"
      [] OTHER -> ""

\* What the file system does when FileBridge._ensure_directory runs: the
\* directory exists already, os.makedirs creates it, or os.makedirs raises.
MakedirsOutcomes == {"exists", "created", "OSError"}

\* FileBridge._ensure_directory: the error it raises, None when it returns.
\* Nothing catches an error of os.makedirs.
ensure_directory(log_file, fs) ==
    IF Truthy(DirName(log_file)) /\ fs # "exists"
    THEN (IF fs = "created" THEN None ELSE fs)
    ELSE None

\* FileBridge.__init__
FileBridge(log_file, fs) ==
    [raised |-> ensure_directory(log_file, fs),
     bridge |-> [type |-> "file", target |-> log_file]]

\* HTTPBridge.__init__
HTTPBridge(endpoint) == [type |-> "http", target |-> endpoint]

\* create_bridges that builds the network sink before the file sink.
create_bridges_http_first(bridge_type, http_endpoint, log_file, fs) ==
    LET file == FileBridge(Or(log_file, ".cursor/exceptions.log"), fs)
        withHttp == IF bridge_type \in {"http", "both"}
                    THEN <<HTTPBridge(Or(http_endpoint,
                                         "http://localhost:7331/exception"))>>
                    ELSE <<>>
        withFile == IF bridge_type \in {"file", "both"}
                    THEN withHttp \o <<file.bridge>> ELSE withHttp
    IN  IF bridge_type \in {"file", "both"} /\ file.raised # None
        THEN [raised |-> file.raised, bridges |-> <<>>]
        ELSE [raised |-> None, bridges |-> withFile]

\* create_bridges: the sink list, or the error FileBridge.__init__ raised
\* (the list is then never returned).
create_bridges(bridge_type, http_endpoint, log_file, fs) ==
    LET file == FileBridge(Or(log_file, ".cursor/exceptions.log"), fs)
        withFile == IF bridge_type \in {"file", "both"}
                    THEN <<file.bridge>> ELSE <<>>
        withHttp == IF bridge_type \in {"http", "both"}
                    THEN withFile \o
                         <<HTTPBridge(Or(http_endpoint,
                                         "http://localhost:7331/exception"))>>
                    ELSE withFile
    IN  IF bridge_type \in {"file", "both"} /\ file.raised # None
        THEN [raised |-> file.raised, bridges |-> <<>>]
        ELSE [raised |-> None, bridges |-> withHttp]

\* What the body of FileBridge.send can do: format, open, write and close
\* succeed ("ok"); open/write/close raise OSError; the utf-8 encoding of the
\* text raises UnicodeEncodeError (a ValueError); the unit is interrupted.
FileSendOutcomes == {"ok", "OSError", "UnicodeEncodeError", "KeyboardInterrupt"}

\* What the body of HTTPBridge.send can do: the POST succeeds; urlopen raises
\* URLError (transport, HTTP status) or OSError (timeout); Request raises
\* ValueError (malformed URL); reading the status line or the body raises
\* http.client.HTTPException (malformed response); the unit is interrupted.
HTTPSendOutcomes ==
    {"ok", "URLError", "OSError", "ValueError", "HTTPException",
     "KeyboardInterrupt"}

SendOutcomes(bridge) ==
    IF bridge.type = "file" THEN FileSendOutcomes ELSE HTTPSendOutcomes

\* open(self.log_file, "w") in place of "a": the file is truncated.
FileWrite_truncates(content, text) == text

\* `with open(self.log_file, "a", encoding="utf-8") as f: f.write(text)`:
\* the content of the file afterwards.
FileWrite(content, text) == content \o text

\* FileBridge.send without its except clause.
FileBridge_send_reraises(raw) ==
    [raised |-> IF raw = "ok" THEN None ELSE raw, delivered |-> (raw = "ok")]

\* FileBridge.send: `except OSError: pass`.  The error that leaves send
\* (None when send returns) and whether the record reached the file.
FileBridge_send(raw) ==
    [raised |-> IF raw = "ok" \/ IsInstance(raw, "OSError") THEN None ELSE raw,
     delivered |-> (raw = "ok")]

\* HTTPBridge.send: `except (URLError, OSError, ValueError): pass`.
HTTPBridge_send(raw) ==
    [raised |-> IF raw = "ok" \/ IsInstance(raw, "URLError")
                   \/ IsInstance(raw, "OSError") \/ IsInstance(raw, "ValueError")
                THEN None ELSE raw,
     delivered |-> (raw = "ok")]

\* bridge.send(payload), dispatched on the sink's class.
Send(bridge, raw) ==
    IF bridge.type = "file" THEN FileBridge_send(raw) ELSE HTTPBridge_send(raw)

(* ---------------------------------------------------------------------- *)
(* reporter.py                                                             *)
(* ---------------------------------------------------------------------- *)

\* Reporter.__init__ with a config given (`bridges or []` is the list).
Reporter(bridges, config) ==
    [config |-> config, bridges |-> bridges, enabled |-> FALSE]

\* Reporter.enabled that reads the internal flag alone.
ReporterEnabled_flag_only(rep, e) == rep.enabled

\* Reporter.enabled: the internal flag and the configuration, both.
ReporterEnabled(rep, e) == rep.enabled /\ ConfigEnabled(rep.config, e)

\* Reporter.enable that looks for the sinks before it reads the configuration.
Reporter_enable_sinks_first(rep, e) ==
    IF rep.bridges = <<>>
    THEN [raised |-> "RuntimeError", reporter |-> rep]
    ELSE IF ~ConfigEnabled(rep.config, e)
    THEN [raised |-> None, reporter |-> rep]
    ELSE [raised |-> None, reporter |-> [rep EXCEPT !.enabled = TRUE]]

\* Reporter.enable that sets the flag whatever the configuration says.
Reporter_enable_forces(rep, e) ==
    IF rep.bridges = <<>> /\ ConfigEnabled(rep.config, e)
    THEN [raised |-> "RuntimeError", reporter |-> rep]
    ELSE [raised |-> None, reporter |-> [rep EXCEPT !.enabled = TRUE]]

\* Reporter.enable: the error raised (None when it returns) and the object
\* afterwards.
Reporter_enable(rep, e) ==
    IF ~ConfigEnabled(rep.config, e)
    THEN [raised |-> None, reporter |-> rep]
    ELSE IF rep.bridges = <<>>
    THEN [raised |-> "RuntimeError", reporter |-> rep]
    ELSE [raised |-> None, reporter |-> [rep EXCEPT !.enabled = TRUE]]

\* Reporter.disable that flips the internal flag.
Reporter_disable_toggles(rep) == [rep EXCEPT !.enabled = ~@]

\* Reporter.disable
Reporter_disable(rep) == [rep EXCEPT !.enabled = FALSE]

\* What building the payload can do: succeed; str(exc_value), __name__ or
\* traceback.format_exception raise an error (TypeError stands for any
\* Exception); the unit is interrupted.
BuildOutcomes == {"ok", "TypeError", "KeyboardInterrupt"}

\* One call of bridge.send as the dispatcher sees it: what the body of send
\* met, the error that left send, whether the record was delivered.
SendEvent(i, bridge, payload, raw) ==
    [ev |-> "send", idx |-> i, bridge |-> bridge, payload |-> payload,
     met |-> raw, raised |-> Send(bridge, raw).raised,
     delivered |-> Send(bridge, raw).delivered]

\* The loop without the try statement around each send: the first error
\* ends it.
RECURSIVE SendLoop_no_isolation(_, _, _, _)
SendLoop_no_isolation(bridges, i, payload, raw) ==
    IF i > Len(bridges)
    THEN [raised |-> None, events |-> <<>>]
    ELSE LET event == SendEvent(i, bridges[i], payload, raw[i])
             rest == SendLoop_no_isolation(bridges, i + 1, payload, raw)
         IN  IF event.raised = None
             THEN [raised |-> rest.raised, events |-> <<event>> \o rest.events]
             ELSE [raised |-> event.raised, events |-> <<event>>]

\* The loop that walks the sink list from its end.
RECURSIVE SendLoop_backwards(_, _, _, _)
SendLoop_backwards(bridges, i, payload, raw) ==
    IF i > Len(bridges)
    THEN [raised |-> None, events |-> <<>>]
    ELSE LET k == Len(bridges) + 1 - i
             event == SendEvent(k, bridges[k], payload, raw[k])
             rest == SendLoop_backwards(bridges, i + 1, payload, raw)
         IN  IF event.raised = None \/ IsInstance(event.raised, "Exception")
             THEN [raised |-> rest.raised, events |-> <<event>> \o rest.events]
             ELSE [raised |-> event.raised, events |-> <<event>>]

\* The loop of Reporter.report_exception from sink i on: `except Exception:
\* pass` around each send.  An error the clause does not catch ends the loop.
RECURSIVE SendLoop(_, _, _, _)
SendLoop(bridges, i, payload, raw) ==
    IF i > Len(bridges)
    THEN [raised |-> None, events |-> <<>>]
    ELSE LET event == SendEvent(i, bridges[i], payload, raw[i])
             rest == SendLoop(bridges, i + 1, payload, raw)
         IN  IF event.raised = None \/ IsInstance(event.raised, "Exception")
             THEN [raised |-> rest.raised, events |-> <<event>> \o rest.events]
             ELSE [raised |-> event.raised, events |-> <<event>>]

\* Reporter.report_exception without its outer except clause.
CaughtAtBoundary_reraises(raised) == raised

\* The outer `except Exception: pass` of Reporter.report_exception.
CaughtAtBoundary(raised) ==
    IF raised # None /\ IsInstance(raised, "Exception") THEN None ELSE raised

\* Reporter.report_exception, run by execution unit `unit`: the error that
\* leaves the call (None when it returns) and what it did, in order.
report_exception(rep, exc, scope, unit, e, build, raw) ==
    IF ~ReporterEnabled(rep, e)
    THEN [raised |-> None, events |-> <<>>]
    ELSE IF build # "ok"
    THEN [raised |-> CaughtAtBoundary(build),
          events |-> <<[ev |-> "build", raised |-> build]>>]
    ELSE LET payload == create_exception_payload(exc, scope, unit)
             loop == SendLoop(rep.bridges, 1, payload, raw)
         IN  [raised |-> CaughtAtBoundary(loop.raised),
              events |-> <<[ev |-> "build", raised |-> None]>> \o loop.events]

(* ---------------------------------------------------------------------- *)
(* hooks.py                                                                *)
(* ---------------------------------------------------------------------- *)

\* The three values a thread hook's args object carries to the dispatcher.
ExcOf(args) ==
    [exc_type |-> args.exc_type, exc_value |-> args.exc_value,
     exc_traceback |-> args.exc_traceback]

\* This package's two handlers, as values of the callback slots.
OwnHandlers == {"_exception_handler", "_thread_exception_handler"}

\* The body shared by _exception_handler and _thread_exception_handler, as
\* the depth-th nested call of it: `instance` and `original` are the module
\* globals the handler reads, `args` is what the runtime passed.  No try
\* statement surrounds either call.  A previous hook of other code that is
\* called returns; a previous hook that is the handler itself runs this
\* body again, one call deeper, until the interpreter's recursion limit
\* raises RecursionError.
RECURSIVE HandlerAt(_, _, _, _, _, _, _, _, _)
HandlerAt(depth, instance, original, heap, args, unit, e, build, raw) ==
    LET rep == IF instance # NoRef
               THEN report_exception(heap[instance], ExcOf(args), None, unit, e,
                                     build, raw)
               ELSE [raised |-> None, events |-> <<>>]
        call == [ev |-> "report", reporter |-> instance, exc |-> ExcOf(args),
                 scope |-> None, raised |-> rep.raised]
        reported == IF instance # NoRef THEN <<call>> \o rep.events ELSE <<>>
        chained == reported \o
                   <<[ev |-> "hook", hook |-> original, args |-> args]>>
    IN  IF depth > RecursionLimit
        THEN [raised |-> "RecursionError", events |-> <<>>]
        ELSE IF rep.raised # None
        THEN [raised |-> rep.raised, events |-> reported]
        ELSE IF Truthy(original) /\ original \in OwnHandlers
        THEN LET inner == HandlerAt(depth + 1, instance, original, heap, args,
                                    unit, e, build, raw)
             IN  [raised |-> inner.raised, events |-> chained \o inner.events]
        ELSE IF Truthy(original)
        THEN [raised |-> None, events |-> chained]
        ELSE [raised |-> None, events |-> reported]

\* The handler as the runtime calls it.
Handler(instance, original, heap, args, unit, e, build, raw) ==
    HandlerAt(1, instance, original, heap, args, unit, e, build, raw)

\* _exception_handler
exception_handler(instance, original, heap, args, e, build, raw) ==
    Handler(instance, original, heap, args, "MainThread", e, build, raw)

\* _thread_exception_handler
thread_exception_handler(instance, original, heap, args, e, build, raw) ==
    Handler(instance, original, heap, args, args.thread, e, build, raw)

\* The module globals of hooks.py together with the two callback slots of
\* the runtime (sys.excepthook, threading.excepthook), as one record.
HookState(main, thread, orig_main, orig_thread, instance) ==
    [main |-> main, thread |-> thread, orig_main |-> orig_main,
     orig_thread |-> orig_thread, instance |-> instance]

\* install_hooks(reporter) that captures the slots at every call.
install_hooks_recaptures(h, reporter) ==
    [main |-> "_exception_handler",
     thread |-> "_thread_exception_handler",
     orig_main |-> h.main,
     orig_thread |-> h.thread,
     instance |-> reporter]

\* install_hooks(reporter) that keeps no reference to the reporter.
install_hooks_forgets_reporter(h, reporter) ==
    [main |-> "_exception_handler",
     thread |-> "_thread_exception_handler",
     orig_main |-> IF h.orig_main = None THEN h.main ELSE h.orig_main,
     orig_thread |-> IF h.orig_thread = None THEN h.thread ELSE h.orig_thread,
     instance |-> h.instance]

\* install_hooks(reporter) that keeps the reporter of an earlier install.
install_hooks_keeps_first_reporter(h, reporter) ==
    [main |-> "_exception_handler",
     thread |-> "_thread_exception_handler",
     orig_main |-> IF h.orig_main = None THEN h.main ELSE h.orig_main,
     orig_thread |-> IF h.orig_thread = None THEN h.thread ELSE h.orig_thread,
     instance |-> IF h.instance # NoRef THEN h.instance ELSE reporter]

\* install_hooks(reporter)
install_hooks(h, reporter) ==
    [main |-> "_exception_handler",
     thread |-> "_thread_exception_handler",
     orig_main |-> IF h.orig_main = None THEN h.main ELSE h.orig_main,
     orig_thread |-> IF h.orig_thread = None THEN h.thread ELSE h.orig_thread,
     instance |-> reporter]

\* uninstall_hooks() that restores a slot only while the slot still holds
\* the package's handler, and keeps a hook other code put there.
uninstall_hooks_keeps_later_hook(h) ==
    [main |-> IF h.orig_main # None /\ h.main = "_exception_handler"
              THEN h.orig_main ELSE h.main,
     thread |-> IF h.orig_thread # None
                   /\ h.thread = "_thread_exception_handler"
                THEN h.orig_thread ELSE h.thread,
     orig_main |-> None,
     orig_thread |-> None,
     instance |-> NoRef]

\* uninstall_hooks() that clears the reporter and keeps the captured hooks.
uninstall_hooks_keeps_captured(h) ==
    [main |-> IF h.orig_main # None THEN h.orig_main ELSE h.main,
     thread |-> IF h.orig_thread # None THEN h.orig_thread ELSE h.thread,
     orig_main |-> h.orig_main,
     orig_thread |-> h.orig_thread,
     instance |-> NoRef]

\* uninstall_hooks() that puts the interpreter's default hooks back.
uninstall_hooks_resets_to_default(h) ==
    [main |-> "sys.__excepthook__",
     thread |-> "threading.__excepthook__",
     orig_main |-> None,
     orig_thread |-> None,
     instance |-> NoRef]

\* uninstall_hooks() that clears the captured state and leaves the slots.
uninstall_hooks_keeps_slots(h) ==
    [h EXCEPT !.orig_main = None, !.orig_thread = None, !.instance = NoRef]

\* uninstall_hooks()
uninstall_hooks(h) ==
    [main |-> IF h.orig_main # None THEN h.orig_main ELSE h.main,
     thread |-> IF h.orig_thread # None THEN h.orig_thread ELSE h.thread,
     orig_main |-> None,
     orig_thread |-> None,
     instance |-> NoRef]

\* is_hooks_installed()
is_hooks_installed(h) == h.instance # NoRef

(* ---------------------------------------------------------------------- *)
(* State                                                                   *)
(* ---------------------------------------------------------------------- *)

VARIABLES
    sys_excepthook,              \* the runtime's main-hook slot
    threading_excepthook,        \* the runtime's thread-hook slot
    original_excepthook,         \* hooks._original_excepthook
    original_thread_excepthook,  \* hooks._original_thread_excepthook
    reporter_instance,           \* hooks._reporter_instance
    global_reporter,             \* reportit._global_reporter
    reporters,                   \* the heap of Reporter objects, by reference
    environ,                     \* CURSOR_EXCEPTION_REPORTING in os.environ
    files,                       \* the log files under observation, by path
    frames,                      \* the calls in progress, by execution unit
    saved,                       \* hooks other code has read from the slots
    last                         \* the last operation: its call and what it did

hookVars == <<sys_excepthook, threading_excepthook, original_excepthook,
              original_thread_excepthook, reporter_instance>>

vars == <<sys_excepthook, threading_excepthook, original_excepthook,
          original_thread_excepthook, reporter_instance, global_reporter,
          reporters, environ, files, frames, saved, last>>

\* The hook state the variables hold.
Hooks ==
    HookState(sys_excepthook, threading_excepthook, original_excepthook,
              original_thread_excepthook, reporter_instance)

\* Assignment of a hook state to the variables.
SetHooks(h) ==
    /\ sys_excepthook' = h.main
    /\ threading_excepthook' = h.thread
    /\ original_excepthook' = h.orig_main
    /\ original_thread_excepthook' = h.orig_thread
    /\ reporter_instance' = h.instance

(* ---------------------------------------------------------------------- *)
(* Inputs                                                                  *)
(* ---------------------------------------------------------------------- *)

\* Hooks other code registers: the runtime's defaults and a stub.
MainHooks == {"sys.__excepthook__", "stub_hook"}
ThreadHooks == {"threading.__excepthook__", "stub_thread_hook"}

\* (type, value, traceback) of an uncaught exception.
Exceptions ==
    {[exc_type |-> [name |-> "ValueError"],
      exc_value |-> [str |-> "before disable"], exc_traceback |-> "tb1"],
     [exc_type |-> [name |-> "KeyError"],
      exc_value |-> [str |-> "after disable"], exc_traceback |-> None]}

\* The exceptions the runtime hands to a hook: they carry a traceback.
Uncaught == {x \in Exceptions : x.exc_traceback # None}

\* threading.ExceptHookArgs
ThreadArgs ==
    {[exc_type |-> x.exc_type, exc_value |-> x.exc_value,
      exc_traceback |-> x.exc_traceback, thread |-> "Thread-1"] :
        x \in Uncaught}

Scopes == {None, "test_function"}

\* Calls of report_exception(exc_type, exc_value, exc_traceback, scope): one
\* without a scope, one with.
ReportCalls ==
    {c \in [exc : Exceptions, scope : Scopes] :
        (c.scope = None) <=> (c.exc.exc_traceback # None)}

OptionalBools == {None, "True", "False"}

\* Values of the environment variable: unset, a truthy spelling, a falsy one.
EnvValues ==
    {[set |-> FALSE, value |-> <<>>],
     [set |-> TRUE, value |-> <<"T", "r", "u", "e">>],
     [set |-> TRUE, value |-> <<"0">>]}

\* Sink lists a caller injects into Reporter(bridges=...): every list of at
\* most n sinks, each a file sink or a network sink.
RECURSIVE SinkLists(_)
SinkLists(n) ==
    IF n = 0 THEN {<<>>}
    ELSE LET shorter == SinkLists(n - 1)
         IN  shorter \cup
             {Append(l, b) : l \in {x \in shorter : Len(x) = n - 1},
                             b \in {FileBridge(DEFAULT_LOG_FILE, "exists").bridge,
                                    HTTPBridge(DEFAULT_HTTP_ENDPOINT)}}

\* What each send of one report does, sink by sink.  A send that no loop
\* reaches, because an earlier one was interrupted, is written "ok".
SendChoices(bridges) ==
    {raw \in [1..Len(bridges) -> FileSendOutcomes \cup HTTPSendOutcomes] :
        \A i \in 1..Len(bridges) :
            /\ raw[i] \in SendOutcomes(bridges[i])
            /\ (\E j \in 1..(i - 1) : raw[j] = "KeyboardInterrupt")
                   => raw[i] = "ok"}

(* ---------------------------------------------------------------------- *)
(* The heap of Reporter objects                                            *)
(* ---------------------------------------------------------------------- *)

\* A heap cell holding no object.
Free == [free |-> TRUE]

\* The references that denote an object.
Live == {ref \in DOMAIN reporters : reporters[ref] # Free}

\* What one report through reference `ref` meets: the payload cannot be
\* built, or it is built and each send does one of the things it can do.  A
\* report that returns at the enabled check meets nothing.
Runs(ref) ==
    IF ref = NoRef \/ ~ReporterEnabled(reporters[ref], environ)
    THEN {[build |-> "ok", raw |-> <<>>]}
    ELSE {[build |-> b, raw |-> <<>>] : b \in BuildOutcomes \ {"ok"}} \cup
         {[build |-> "ok", raw |-> r] : r \in SendChoices(reporters[ref].bridges)}

\* No file is observed.
NoFiles == <<>>

\* The execution units: the main thread and the worker threads.
Workers == {<<"Thread-1", "Thread-2", "Thread-3">>[i] : i \in 1..MaxThreads}

Units == {"MainThread"} \cup Workers

\* No call is in progress in a unit.  pc: where the unit is in the handler;
\* self: the Reporter whose report_exception it runs; i: the sink the loop
\* is at; events: what the call did, in order; raised: the error that left
\* the handler; began: what the unit found when its exception went uncaught.
Idle ==
    [pc |-> "idle", self |-> NoRef, i |-> 0, events |-> <<>>, raised |-> None,
     began |-> [installed |-> FALSE, enabled |-> FALSE]]

NoFrames == [unit \in Units |-> Idle]

\* Other code holds no hook it has read from a slot.
NoSaved == [main |-> None, thread |-> None]

\* The records in a file: its header lines.
Records(content) ==
    Cardinality({i \in DOMAIN content : content[i].label = "Exception Report"})

\* No observed file has reached the number of records at which reporting
\* stops.
RoomInFiles == \A path \in DOMAIN files : Records(files[path]) < MaxRecords

\* The observed files after the sends of one report, from event i on: each
\* send of a file sink that got as far as writing wrote the text of the
\* payload.
RECURSIVE Written(_, _, _)
Written(fs, events, i) ==
    IF i > Len(events)
    THEN fs
    ELSE LET e == events[i]
             wrote == /\ e.ev = "send"
                      /\ e.bridge.type = "file"
                      /\ e.delivered
                      /\ e.bridge.target \in DOMAIN fs
         IN  Written(IF wrote
                     THEN [fs EXCEPT ![e.bridge.target] =
                              FileWrite(@, format_payload_as_text(e.payload))]
                     ELSE fs,
                     events, i + 1)

\* Reference counting: an object no root refers to is freed.
Collect(heap, roots) ==
    [ref \in DOMAIN heap |-> IF ref \in roots THEN heap[ref] ELSE Free]

(* ---------------------------------------------------------------------- *)
(* The record of the last operation                                        *)
(* ---------------------------------------------------------------------- *)

NoArgs == [exc_type |-> None, exc_value |-> None, exc_traceback |-> None]

NoHooks == HookState(None, None, None, None, NoRef)

NoOp == [op |-> None, ref |-> NoRef, raised |-> None, before |-> NoHooks]

\* op: the operation; ref: the Reporter it was called on or with; args,
\* scope: its exception arguments; raised: the error that left it; events:
\* the calls it made, in order; before: the hook state it found (operations
\* that install or uninstall); follows: the operation before it (operations
\* that uninstall), or the teardown before it (reports, uncaught exceptions).
\* cycle: how many times install_hooks(), called directly, has found the
\* hooks uninstalled.
Op(op, ref, args, scope, raised, events, before, follows) ==
    [op |-> op, ref |-> ref, args |-> args, scope |-> scope,
     raised |-> raised, events |-> events, before |-> before,
     follows |-> follows, cycle |-> last.cycle]

\* The operation an uninstall follows.
Previous ==
    [op |-> last.op, ref |-> last.ref, raised |-> last.raised,
     before |-> last.before]

\* The operations that change nothing: reports and uncaught exceptions.
EventOps == {"report_exception", "sys.excepthook", "threading.excepthook"}

\* What a report or an uncaught exception follows, when that is a public
\* enable() and then a public disable() with nothing but reports and uncaught
\* exceptions since: the enable and the hooks it found.
AfterTeardown ==
    IF last.op = "disable" /\ last.follows.op = "enable"
    THEN [last.follows EXCEPT !.op = "enable; disable"]
    ELSE IF last.op \in EventOps
    THEN last.follows
    ELSE NoOp

Start ==
    [op |-> "start", ref |-> NoRef, args |-> NoArgs, scope |-> None,
     raised |-> None, events |-> <<>>, before |-> NoHooks, follows |-> NoOp,
     cycle |-> 0]

(* ---------------------------------------------------------------------- *)
(* Operations of the hook manager and of a Reporter, called directly       *)
(* ---------------------------------------------------------------------- *)

\* install_hooks(reporter) with a Reporter that exists.
InstallHooks(ref) ==
    /\ ref \in Live
    /\ is_hooks_installed(Hooks) \/ last.cycle < MaxCycles
    /\ SetHooks(install_hooks(Hooks, ref))
    /\ last' = [Op("install_hooks", ref, NoArgs, None, None, <<>>, Hooks, NoOp)
                   EXCEPT !.cycle = IF is_hooks_installed(Hooks)
                                    THEN @ ELSE @ + 1]
    /\ UNCHANGED <<global_reporter, reporters, environ, files, frames, saved>>

\* uninstall_hooks()
UninstallHooks ==
    /\ SetHooks(uninstall_hooks(Hooks))
    /\ last' = Op("uninstall_hooks", NoRef, NoArgs, None, None, <<>>, Hooks,
                  Previous)
    /\ UNCHANGED <<global_reporter, reporters, environ, files, frames, saved>>

\* reporter.enable()
ReporterEnable(ref) ==
    /\ ref \in Live
    /\ LET res == Reporter_enable(reporters[ref], environ)
       IN  /\ reporters' = [reporters EXCEPT ![ref] = res.reporter]
           /\ last' = Op("Reporter.enable", ref, NoArgs, None, res.raised, <<>>,
                         NoHooks, NoOp)
    /\ UNCHANGED <<hookVars, global_reporter, environ, files, frames, saved>>

\* reporter.disable()
ReporterDisable(ref) ==
    /\ ref \in Live
    /\ reporters' = [reporters EXCEPT ![ref] = Reporter_disable(@)]
    /\ last' = Op("Reporter.disable", ref, NoArgs, None, None, <<>>, NoHooks,
                  NoOp)
    /\ UNCHANGED <<hookVars, global_reporter, environ, files, frames, saved>>

\* reporter.report_exception(exc_type, exc_value, exc_traceback, scope)
ReporterReport(ref, exc, scope, run) ==
    /\ ref \in Live
    /\ RoomInFiles
    /\ LET res == report_exception(reporters[ref], exc, scope, "MainThread",
                                   environ, run.build, run.raw)
       IN  /\ last' = Op("Reporter.report_exception", ref, exc, scope,
                         res.raised, res.events, NoHooks, NoOp)
           /\ files' = Written(files, res.events, 1)
    /\ UNCHANGED <<hookVars, global_reporter, reporters, environ, frames, saved>>

(* ---------------------------------------------------------------------- *)
(* The public entry points of reportit/__init__.py                         *)
(* ---------------------------------------------------------------------- *)

\* reportit.enable(bridge, http_endpoint, log_file, enabled).  An error of
\* create_bridges leaves before _global_reporter is assigned; an error of
\* Reporter.enable leaves after it and before install_hooks.  The new
\* Reporter is an object other than the ones still referred to.
Enable(bridge, http_endpoint, log_file, enabled, fs) ==
    /\ \E ref \in DOMAIN reporters : ref \notin {global_reporter, reporter_instance}
    /\ LET config == Config(enabled, bridge, http_endpoint, log_file)
           made == create_bridges(config.bridge, config.http_endpoint,
                                  config.log_file, fs)
           ref == CHOOSE r \in DOMAIN reporters :
                      /\ r \notin {global_reporter, reporter_instance}
                      /\ \A q \in DOMAIN reporters :
                             q \notin {global_reporter, reporter_instance}
                                 => r <= q
           res == Reporter_enable(Reporter(made.bridges, config), environ)
           heap == [reporters EXCEPT ![ref] = res.reporter]
       IN  IF made.raised # None
           THEN /\ last' = Op("enable", NoRef, NoArgs, None, made.raised, <<>>,
                              Hooks, NoOp)
                /\ UNCHANGED <<hookVars, global_reporter, reporters>>
           ELSE /\ global_reporter' = ref
                /\ last' = Op("enable", ref, NoArgs, None, res.raised, <<>>,
                              Hooks, NoOp)
                /\ IF res.raised # None
                   THEN /\ UNCHANGED hookVars
                        /\ reporters' = Collect(heap, {ref, reporter_instance})
                   ELSE /\ SetHooks(install_hooks(Hooks, ref))
                        /\ reporters' = Collect(heap, {ref})
    /\ UNCHANGED <<environ, files, frames, saved>>

\* reportit.disable()
Disable ==
    /\ SetHooks(uninstall_hooks(Hooks))
    /\ global_reporter' = NoRef
    /\ reporters' =
           Collect(IF global_reporter # NoRef
                   THEN [reporters EXCEPT
                            ![global_reporter] = Reporter_disable(@)]
                   ELSE reporters, {})
    /\ last' = Op("disable", global_reporter, NoArgs, None, None, <<>>, Hooks,
                  Previous)
    /\ UNCHANGED <<environ, files, frames, saved>>

\* reportit.report_exception(exc_type, exc_value, exc_traceback, scope)
ReportException(exc, scope, run) ==
    /\ RoomInFiles
    /\ LET res == IF global_reporter # NoRef
                  THEN report_exception(reporters[global_reporter], exc, scope,
                                        "MainThread", environ, run.build,
                                        run.raw)
                  ELSE [raised |-> None, events |-> <<>>]
       IN  /\ last' = Op("report_exception", global_reporter, exc, scope,
                         res.raised, res.events, NoHooks, AfterTeardown)
           /\ files' = Written(files, res.events, 1)
    /\ UNCHANGED <<hookVars, global_reporter, reporters, environ, frames, saved>>

(* ---------------------------------------------------------------------- *)
(* The runtime and other code                                              *)
(* ---------------------------------------------------------------------- *)

\* An exception goes uncaught on the main thread: the runtime calls
\* whatever sys.excepthook holds.
UncaughtMain(exc, run) ==
    /\ RoomInFiles
    /\ LET res == IF sys_excepthook = "_exception_handler"
                  THEN exception_handler(reporter_instance,
                                         original_excepthook, reporters, exc,
                                         environ, run.build, run.raw)
                  ELSE [raised |-> None,
                        events |-> <<[ev |-> "hook", hook |-> sys_excepthook,
                                      args |-> exc]>>]
       IN  /\ last' = Op("sys.excepthook", reporter_instance, exc, None,
                         res.raised, res.events, NoHooks, AfterTeardown)
           /\ files' = Written(files, res.events, 1)
    /\ UNCHANGED <<hookVars, global_reporter, reporters, environ, frames, saved>>

\* An exception goes uncaught on a worker thread: the runtime calls
\* whatever threading.excepthook holds.
UncaughtThread(args, run) ==
    /\ RoomInFiles
    /\ LET res == IF threading_excepthook = "_thread_exception_handler"
                  THEN thread_exception_handler(reporter_instance,
                                                original_thread_excepthook,
                                                reporters, args, environ,
                                                run.build, run.raw)
                  ELSE [raised |-> None,
                        events |-> <<[ev |-> "hook",
                                      hook |-> threading_excepthook,
                                      args |-> args]>>]
       IN  /\ last' = Op("threading.excepthook", reporter_instance, args,
                         None, res.raised, res.events, NoHooks, AfterTeardown)
           /\ files' = Written(files, res.events, 1)
    /\ UNCHANGED <<hookVars, global_reporter, reporters, environ, frames, saved>>

\* Other code assigns sys.excepthook.
SetExcepthook(hook) ==
    /\ sys_excepthook' = hook
    /\ last' = Op("set sys.excepthook", NoRef, NoArgs, None, None, <<>>,
                  NoHooks, NoOp)
    /\ UNCHANGED <<threading_excepthook, original_excepthook,
                   original_thread_excepthook, reporter_instance,
                   global_reporter, reporters, environ, files, frames, saved>>

\* Other code assigns threading.excepthook.
SetThreadExcepthook(hook) ==
    /\ threading_excepthook' = hook
    /\ last' = Op("set threading.excepthook", NoRef, NoArgs, None, None, <<>>,
                  NoHooks, NoOp)
    /\ UNCHANGED <<sys_excepthook, original_excepthook,
                   original_thread_excepthook, reporter_instance,
                   global_reporter, reporters, environ, files, frames, saved>>

\* Other code reads sys.excepthook and keeps the value.
SaveExcepthook ==
    /\ saved' = [saved EXCEPT !.main = sys_excepthook]
    /\ last' = Op("read sys.excepthook", NoRef, NoArgs, None, None, <<>>,
                  NoHooks, NoOp)
    /\ UNCHANGED <<hookVars, global_reporter, reporters, environ, files,
                   frames>>

\* Other code writes the value it read back into sys.excepthook.
RestoreExcepthook ==
    /\ saved.main # None
    /\ sys_excepthook' = saved.main
    /\ last' = Op("restore sys.excepthook", NoRef, NoArgs, None, None, <<>>,
                  NoHooks, NoOp)
    /\ UNCHANGED <<threading_excepthook, original_excepthook,
                   original_thread_excepthook, reporter_instance,
                   global_reporter, reporters, environ, files, frames, saved>>

\* Other code reads threading.excepthook and keeps the value.
SaveThreadExcepthook ==
    /\ saved' = [saved EXCEPT !.thread = threading_excepthook]
    /\ last' = Op("read threading.excepthook", NoRef, NoArgs, None, None, <<>>,
                  NoHooks, NoOp)
    /\ UNCHANGED <<hookVars, global_reporter, reporters, environ, files,
                   frames>>

\* Other code writes the value it read back into threading.excepthook.
RestoreThreadExcepthook ==
    /\ saved.thread # None
    /\ threading_excepthook' = saved.thread
    /\ last' = Op("restore threading.excepthook", NoRef, NoArgs, None, None,
                  <<>>, NoHooks, NoOp)
    /\ UNCHANGED <<sys_excepthook, original_excepthook,
                   original_thread_excepthook, reporter_instance,
                   global_reporter, reporters, environ, files, frames, saved>>

\* The process environment changes.
SetEnv(value) ==
    /\ environ' = value
    /\ last' = Op("set environ", NoRef, NoArgs, None, None, <<>>, NoHooks, NoOp)
    /\ UNCHANGED <<hookVars, global_reporter, reporters, files, frames, saved>>

\* The callback slots and the hook manager at process start.
InitHooks ==
    /\ sys_excepthook = "sys.__excepthook__"
    /\ threading_excepthook = "threading.__excepthook__"
    /\ original_excepthook = None
    /\ original_thread_excepthook = None
    /\ reporter_instance = NoRef
    /\ global_reporter = NoRef
    /\ frames = NoFrames
    /\ saved = NoSaved
    /\ last = Start

(* ---------------------------------------------------------------------- *)
(* SpecReporter: one dispatcher, used directly                             *)
(* ---------------------------------------------------------------------- *)

\* Reporter(bridges=..., enabled=...) for every sink list and flag.
InitReporter ==
    /\ InitHooks
    /\ files = NoFiles
    /\ environ \in EnvValues
    /\ \E bridges \in SinkLists(MaxSinks), enabled \in OptionalBools :
           reporters = <<Reporter(bridges, Config(enabled, None, None, None))>>

NextReporter ==
    \/ \E ref \in Live : ReporterEnable(ref)
    \/ \E ref \in Live : ReporterDisable(ref)
    \/ \E ref \in Live, call \in ReportCalls :
           \E run \in Runs(ref) :
               ReporterReport(ref, call.exc, call.scope, run)
    \/ \E value \in EnvValues : SetEnv(value)

SpecReporter == InitReporter /\ [][NextReporter]_vars

(* ---------------------------------------------------------------------- *)
(* SpecHooks: the hook manager with dispatchers the caller holds           *)
(* ---------------------------------------------------------------------- *)

\* The dispatcher reportit.enable(bridge="both", enabled=True) builds.
BothReporter ==
    Reporter_enable(
        Reporter(create_bridges("both", None, None, "exists").bridges,
                 Config("True", "both", None, None)),
        [set |-> FALSE, value |-> <<>>]).reporter

\* The dispatcher reportit.enable(enabled=True) builds: the default
\* selection, a file sink.
DefaultReporter ==
    Reporter_enable(
        Reporter(create_bridges(DEFAULT_BRIDGE, None, None, "exists").bridges,
                 Config("True", None, None, None)),
        [set |-> FALSE, value |-> <<>>]).reporter

InitManager ==
    /\ InitHooks
    /\ files = NoFiles
    /\ environ = [set |-> FALSE, value |-> <<>>]
    /\ reporters = [ref \in 1..MaxReporters |-> DefaultReporter]

NextHooks ==
    \/ \E ref \in Live : InstallHooks(ref)
    \/ UninstallHooks
    \/ \E ref \in Live : ReporterEnable(ref)
    \/ \E ref \in Live : ReporterDisable(ref)
    \/ \E exc \in Uncaught, run \in Runs(reporter_instance) :
           UncaughtMain(exc, run)
    \/ \E args \in ThreadArgs, run \in Runs(reporter_instance) :
           UncaughtThread(args, run)
    \/ \E hook \in MainHooks : SetExcepthook(hook)
    \/ \E hook \in ThreadHooks : SetThreadExcepthook(hook)

SpecHooks == InitManager /\ [][NextHooks]_vars

(* ---------------------------------------------------------------------- *)
(* SpecRestore: the hook manager beside code that saves and restores hooks *)
(* ---------------------------------------------------------------------- *)

NextRestore ==
    \/ \E ref \in Live : InstallHooks(ref)
    \/ UninstallHooks
    \/ SaveExcepthook
    \/ RestoreExcepthook
    \/ SaveThreadExcepthook
    \/ RestoreThreadExcepthook
    \/ \E exc \in Uncaught, run \in Runs(reporter_instance) :
           UncaughtMain(exc, run)
    \/ \E args \in ThreadArgs, run \in Runs(reporter_instance) :
           UncaughtThread(args, run)

SpecRestore == InitManager /\ [][NextRestore]_vars

(* ---------------------------------------------------------------------- *)
(* SpecLifecycle: install_hooks and uninstall_hooks and nothing else       *)
(* ---------------------------------------------------------------------- *)

\* Any hooks in the two slots, the hook manager as at import.
InitLifecycle ==
    /\ sys_excepthook \in MainHooks
    /\ threading_excepthook \in ThreadHooks
    /\ original_excepthook = None
    /\ original_thread_excepthook = None
    /\ reporter_instance = NoRef
    /\ global_reporter = NoRef
    /\ frames = NoFrames
    /\ saved = NoSaved
    /\ last = Start
    /\ files = NoFiles
    /\ environ = [set |-> FALSE, value |-> <<>>]
    /\ reporters = [ref \in 1..MaxReporters |-> BothReporter]

NextLifecycle ==
    \/ \E ref \in Live : InstallHooks(ref)
    \/ UninstallHooks

SpecLifecycle == InitLifecycle /\ [][NextLifecycle]_vars

(* ---------------------------------------------------------------------- *)
(* SpecConstruct: configuration and sink construction, called directly     *)
(* ---------------------------------------------------------------------- *)

\* Spellings of the environment variable that Config reads as enabled.
TruthySpellings ==
    {<<"t", "r", "u", "e">>, <<"T", "r", "u", "e">>, <<"T", "R", "U", "E">>,
     <<"t", "R", "u", "E">>, <<"1">>, <<"y", "e", "s">>, <<"Y", "e", "s">>,
     <<"Y", "E", "S">>, <<"o", "n">>, <<"O", "n">>, <<"O", "N">>,
     <<"o", "N">>}

\* Spellings that Config reads as disabled.
FalsySpellings ==
    {<<>>, <<"0">>, <<"f", "a", "l", "s", "e">>, <<"F", "a", "l", "s", "e">>,
     <<"n", "o">>, <<"o", "f", "f">>, <<"2">>, <<"y">>, <<"t">>,
     <<"t", "r", "u", "e", "e">>, <<" ", "t", "r", "u", "e">>, <<"1", "1">>,
     <<"t", "r", "u">>, <<"o", "n", "e">>}

\* The environment variable: unset, or set to one of the spellings.
ConfigEnvValues ==
    {[set |-> FALSE, value |-> <<>>]} \cup
    {[set |-> TRUE, value |-> v] : v \in TruthySpellings \cup FalsySpellings}

SelectionArgs == {"file", "http", "both", "other"}

PathArgs == {None, "/var/log/app/exceptions.log", "exceptions.log"}

UrlArgs == {None, "http://collector:9000/report"}

\* scope arguments: left out, the empty string, identifiers.
ScopeArgs == {None, "", "test_function", "worker"}

\* Config(enabled=...).enabled, read once.
EvalConfig(enabled) ==
    /\ last' = Op("Config.enabled", NoRef, NoArgs, None, None,
                  <<[ev |-> "enabled", flag |-> enabled,
                     result |-> ConfigEnabled(Config(enabled, None, None, None),
                                              environ)]>>,
                  NoHooks, NoOp)
    /\ UNCHANGED <<hookVars, global_reporter, reporters, environ, files, frames, saved>>

\* create_bridges(bridge_type, http_endpoint, log_file)
CreateBridges(bridge_type, http_endpoint, log_file, fs) ==
    /\ LET made == create_bridges(bridge_type, http_endpoint, log_file, fs)
       IN  last' = Op("create_bridges", NoRef, NoArgs, None, made.raised,
                      <<[ev |-> "create_bridges", bridge_type |-> bridge_type,
                         http_endpoint |-> http_endpoint,
                         log_file |-> log_file, fs |-> fs,
                         bridges |-> made.bridges]>>,
                      NoHooks, NoOp)
    /\ UNCHANGED <<hookVars, global_reporter, reporters, environ, files, frames, saved>>

\* create_exception_payload(exc_type, exc_value, exc_traceback, scope)
CreatePayload(exc, scope, build) ==
    /\ last' = Op("create_exception_payload", NoRef, exc, scope,
                  IF build = "ok" THEN None ELSE build,
                  IF build = "ok"
                  THEN <<[ev |-> "payload",
                          payload |-> create_exception_payload(exc, scope,
                                                               "MainThread")]>>
                  ELSE <<>>,
                  NoHooks, NoOp)
    /\ UNCHANGED <<hookVars, global_reporter, reporters, environ, files, frames, saved>>

InitConstruct ==
    /\ InitHooks
    /\ files = NoFiles
    /\ environ \in ConfigEnvValues
    /\ reporters = <<>>

NextConstruct ==
    \/ \E enabled \in OptionalBools : EvalConfig(enabled)
    \/ \E bridge_type \in SelectionArgs, http_endpoint \in UrlArgs,
          log_file \in PathArgs, fs \in MakedirsOutcomes :
           CreateBridges(bridge_type, http_endpoint, log_file, fs)
    \/ \E exc \in Exceptions, scope \in ScopeArgs, build \in BuildOutcomes :
           CreatePayload(exc, scope, build)
    \/ \E value \in ConfigEnvValues : SetEnv(value)

SpecConstruct == InitConstruct /\ [][NextConstruct]_vars

(* ---------------------------------------------------------------------- *)
(* SpecFile: reports through one dispatcher, the log file observed         *)
(* ---------------------------------------------------------------------- *)

\* What the log file holds before the first report: nothing, or a line
\* written earlier.
EarlierContents == {<<>>, <<[label |-> "earlier line", value |-> ""]>>}

\* The dispatcher of enable(bridge="both"): a file sink on the default path
\* and a network sink; the file is observed.
InitFile ==
    /\ InitHooks
    /\ environ = [set |-> FALSE, value |-> <<>>]
    /\ \E content \in EarlierContents :
           files = [path \in {DEFAULT_LOG_FILE} |-> content]
    /\ reporters = <<BothReporter>>

NextFile ==
    \E ref \in Live, call \in ReportCalls :
        \E run \in Runs(ref) :
            ReporterReport(ref, call.exc, call.scope, run)

SpecFile == InitFile /\ [][NextFile]_vars

(* ---------------------------------------------------------------------- *)
(* Spec: the application uses the public entry points                      *)
(* ---------------------------------------------------------------------- *)

BridgeArgs == {None, "both", "other"}

LogFileArgs == {None}

EndpointArgs == {None}

Init ==
    /\ InitHooks
    /\ files = NoFiles
    /\ environ = [set |-> FALSE, value |-> <<>>]
    /\ reporters = [ref \in 1..MaxReporters |-> Free]

Next ==
    \/ \E bridge \in BridgeArgs, http_endpoint \in EndpointArgs,
          log_file \in LogFileArgs, enabled \in OptionalBools,
          fs \in MakedirsOutcomes :
           Enable(bridge, http_endpoint, log_file, enabled, fs)
    \/ Disable
    \/ \E call \in ReportCalls, run \in Runs(global_reporter) :
           ReportException(call.exc, call.scope, run)
    \/ \E exc \in Uncaught, run \in Runs(reporter_instance) :
           UncaughtMain(exc, run)
    \/ \E args \in ThreadArgs, run \in Runs(reporter_instance) :
           UncaughtThread(args, run)
    \/ \E hook \in MainHooks : SetExcepthook(hook)
    \/ \E hook \in ThreadHooks : SetThreadExcepthook(hook)

Spec == Init /\ [][Next]_vars

(* ---------------------------------------------------------------------- *)
(* SpecConcurrent: the handlers run in several threads, statement by       *)
(* statement, beside a control thread that installs, uninstalls, disables  *)
(* ---------------------------------------------------------------------- *)

\* The slot the runtime reads for an exception uncaught in `unit`, the
\* handler install_hooks puts there, and the global that handler chains to.
SlotOf(unit) ==
    IF unit = "MainThread" THEN sys_excepthook ELSE threading_excepthook

OwnHandlerOf(unit) ==
    IF unit = "MainThread"
    THEN "_exception_handler" ELSE "_thread_exception_handler"

OriginalOf(unit) ==
    IF unit = "MainThread"
    THEN original_excepthook ELSE original_thread_excepthook

\* The unit's frame becomes `frame`; a handler writes nothing else.
Goto(unit, frame) ==
    /\ frames' = [frames EXCEPT ![unit] = frame]
    /\ UNCHANGED <<hookVars, global_reporter, reporters, environ, files, saved,
                   last>>

AfterSend_rechecks_enabled(rep, i, raised, e) ==
    IF raised # None /\ ~IsInstance(raised, "Exception")
    THEN [pc |-> "done", i |-> i, raised |-> raised]
    ELSE IF i < Len(rep.bridges) /\ ReporterEnabled(rep, e)
    THEN [pc |-> "send", i |-> i + 1, raised |-> None]
    ELSE [pc |-> "check_original", i |-> i, raised |-> None]

\* Where report_exception is after the send to sink i: an error the loop
\* does not catch leaves the call; otherwise the loop takes the next sink,
\* or ends.  The enabled flag is not read again.
AfterSend(rep, i, raised, e) ==
    IF raised # None /\ ~IsInstance(raised, "Exception")
    THEN [pc |-> "done", i |-> i, raised |-> raised]
    ELSE IF i < Len(rep.bridges)
    THEN [pc |-> "send", i |-> i + 1, raised |-> None]
    ELSE [pc |-> "check_original", i |-> i, raised |-> None]

\* An exception goes uncaught in `unit`: the runtime calls what the slot
\* holds, this package's handler or a hook of other code, which returns.
Raise(unit) ==
    /\ frames[unit].pc = "idle"
    /\ LET began == [installed |-> is_hooks_installed(Hooks),
                     enabled |-> /\ reporter_instance # NoRef
                                 /\ ReporterEnabled(reporters[reporter_instance],
                                                    environ)]
       IN  IF SlotOf(unit) = OwnHandlerOf(unit)
           THEN Goto(unit, [frames[unit] EXCEPT !.pc = "check_reporter",
                                                !.began = began])
           ELSE Goto(unit, [frames[unit] EXCEPT
                               !.pc = "done", !.began = began,
                               !.events = <<[ev |-> "hook",
                                             hook |-> SlotOf(unit)]>>])

\* `if _reporter_instance:`
CheckReporter(unit) ==
    /\ frames[unit].pc = "check_reporter"
    /\ Goto(unit, [frames[unit] EXCEPT
                      !.pc = IF reporter_instance # NoRef
                             THEN "load_reporter" ELSE "check_original"])

\* `_reporter_instance.report_exception(...)`: the global is read again;
\* None has no attribute report_exception.
LoadReporter(unit) ==
    /\ frames[unit].pc = "load_reporter"
    /\ IF reporter_instance = NoRef
       THEN Goto(unit, [frames[unit] EXCEPT !.pc = "done",
                                            !.raised = "AttributeError"])
       ELSE Goto(unit, [frames[unit] EXCEPT
                           !.pc = "check_enabled",
                           !.self = reporter_instance,
                           !.events = Append(@, [ev |-> "report",
                                                 reporter |-> reporter_instance])])

CheckEnabled_drops_when_busy(unit) ==
    /\ frames[unit].pc = "check_enabled"
    /\ Goto(unit, [frames[unit] EXCEPT
                      !.pc = IF /\ ReporterEnabled(reporters[frames[unit].self],
                                                   environ)
                                /\ \A other \in Units \ {unit} :
                                       frames[other].pc \notin {"build", "send"}
                             THEN "build" ELSE "check_original"])

\* `if not self.enabled: return`
CheckEnabled(unit) ==
    /\ frames[unit].pc = "check_enabled"
    /\ Goto(unit, [frames[unit] EXCEPT
                      !.pc = IF ReporterEnabled(reporters[frames[unit].self],
                                                environ)
                             THEN "build" ELSE "check_original"])

\* `payload = create_exception_payload(...)` inside the outer try.
Build(unit, build) ==
    /\ frames[unit].pc = "build"
    /\ LET frame == [frames[unit] EXCEPT
                        !.events = Append(@, [ev |-> "build",
                                              raised |->
                                                  IF build = "ok"
                                                  THEN None ELSE build])]
           rep == reporters[frames[unit].self]
       IN  IF build = "ok" /\ rep.bridges # <<>>
           THEN Goto(unit, [frame EXCEPT !.pc = "send", !.i = 1])
           ELSE IF build = "ok" \/ CaughtAtBoundary(build) = None
           THEN Goto(unit, [frame EXCEPT !.pc = "check_original"])
           ELSE Goto(unit, [frame EXCEPT !.pc = "done", !.raised = build])

\* One iteration of `for bridge in self._bridges`: bridge.send(payload) in
\* its try statement.  cancelled: the dispatcher was disabled or no longer
\* installed when the send was made; between: the other units that had sent
\* to a sink and not yet to the next one.
SendNext(unit, raw) ==
    /\ frames[unit].pc = "send"
    /\ LET rep == reporters[frames[unit].self]
           i == frames[unit].i
           sent == Send(rep.bridges[i], raw)
           event == [ev |-> "send", idx |-> i, bridge |-> rep.bridges[i],
                     raised |-> sent.raised,
                     cancelled |-> \/ ~ReporterEnabled(rep, environ)
                                   \/ reporter_instance # frames[unit].self,
                     between |-> {other \in Units \ {unit} :
                                     /\ frames[other].pc = "send"
                                     /\ frames[other].i > 1}]
           after == AfterSend(rep, i, sent.raised, environ)
       IN  /\ raw \in SendOutcomes(rep.bridges[i])
           /\ Goto(unit, [frames[unit] EXCEPT
                             !.events = Append(@, event),
                             !.pc = after.pc, !.i = after.i,
                             !.raised = after.raised])

\* `if _original_excepthook:`
CheckOriginal(unit) ==
    /\ frames[unit].pc = "check_original"
    /\ Goto(unit, [frames[unit] EXCEPT
                      !.pc = IF Truthy(OriginalOf(unit))
                             THEN "call_original" ELSE "done"])

\* `_original_excepthook(...)`: the global is read again; None is not
\* callable.  A hook of other code returns.
CallOriginal(unit) ==
    /\ frames[unit].pc = "call_original"
    /\ IF OriginalOf(unit) = None
       THEN Goto(unit, [frames[unit] EXCEPT !.pc = "done",
                                            !.raised = "TypeError"])
       ELSE Goto(unit, [frames[unit] EXCEPT
                           !.pc = "done",
                           !.events = Append(@, [ev |-> "hook",
                                                 hook |-> OriginalOf(unit)])])

\* One dispatcher, built and enabled by the caller, the hooks not installed.
InitConcurrent ==
    /\ InitHooks
    /\ files = NoFiles
    /\ environ = [set |-> FALSE, value |-> <<>>]
    /\ reporters = <<BothReporter>>

NextConcurrent ==
    \/ \E ref \in Live : InstallHooks(ref)
    \/ UninstallHooks
    \/ \E ref \in Live : ReporterDisable(ref)
    \/ \E unit \in Units : Raise(unit)
    \/ \E unit \in Units : CheckReporter(unit)
    \/ \E unit \in Units : LoadReporter(unit)
    \/ \E unit \in Units : CheckEnabled(unit)
    \/ \E unit \in Units, build \in BuildOutcomes : Build(unit, build)
    \/ \E unit \in Units, raw \in FileSendOutcomes \cup HTTPSendOutcomes :
           SendNext(unit, raw)
    \/ \E unit \in Units : CheckOriginal(unit)
    \/ \E unit \in Units : CallOriginal(unit)

SpecConcurrent == InitConcurrent /\ [][NextConcurrent]_vars

(* ---------------------------------------------------------------------- *)
(* Claims                                                                  *)
(* ---------------------------------------------------------------------- *)

\* The positions of the events of kind `ev` among the events of the last
\* operation.
EventsOf(ev) == {i \in 1..Len(last.events) : last.events[i].ev = ev}

\* The last operation was the runtime calling this package's main-hook
\* (thread-hook) handler.
MainHandlerRan ==
    last.op = "sys.excepthook" /\ sys_excepthook = "_exception_handler"

ThreadHandlerRan ==
    /\ last.op = "threading.excepthook"
    /\ threading_excepthook = "_thread_exception_handler"

\* The last operation was uninstall_hooks() called right after install_hooks.
InstallThenUninstall ==
    last.op = "uninstall_hooks" /\ last.follows.op = "install_hooks"

\* The hook state is the one install_hooks found, with nothing captured and
\* no dispatcher held.
RestoredTo(before) ==
    /\ sys_excepthook = before.main
    /\ threading_excepthook = before.thread
    /\ original_excepthook = None
    /\ original_thread_excepthook = None
    /\ reporter_instance = NoRef

\* C1 as stated: whatever the two callback slots hold immediately before
\* install_hooks(d), install_hooks(d) then uninstall_hooks() leaves both
\* slots holding those same hooks, the captured hooks and the dispatcher
\* reference cleared.  Fails when install_hooks is called with previous
\* hooks already captured: uninstall then restores the captured hooks.
C1_RoundTripFromAnyState ==
    InstallThenUninstall => RestoredTo(last.follows.before)

\* C1 amended: when install_hooks(d) is called with no previous hook
\* captured (the Uninstalled state), install_hooks(d) then uninstall_hooks()
\* leaves both slots holding the hooks they held immediately before the
\* install, the captured hooks and the dispatcher reference cleared.
C1_RoundTripFromUninstalled ==
    (/\ InstallThenUninstall
     /\ last.follows.before.orig_main = None
     /\ last.follows.before.orig_thread = None)
        => RestoredTo(last.follows.before)

\* C1 witness: a round trip from the Uninstalled state that restored hooks
\* other than the runtime's defaults.
C1_Witness ==
    /\ InstallThenUninstall
    /\ last.follows.before.orig_main = None
    /\ last.follows.before.orig_thread = None
    /\ last.follows.before.main = "stub_hook"
    /\ last.follows.before.thread = "stub_thread_hook"
    /\ sys_excepthook = "stub_hook"
    /\ threading_excepthook = "stub_thread_hook"

\* What C2 says of one handler invocation: the first call is the
\* dispatcher's report with the exception's type, value and traceback, the
\* last call is the captured previous hook with the original arguments, and
\* each is called exactly once.
ReportedThenChained(exc, previous) ==
    /\ Cardinality(EventsOf("report")) = 1
    /\ Cardinality(EventsOf("hook")) = 1
    /\ Head(last.events).ev = "report"
    /\ Head(last.events).reporter = reporter_instance
    /\ Head(last.events).exc = exc
    /\ last.events[Len(last.events)] =
           [ev |-> "hook", hook |-> previous, args |-> last.args]

\* C2: while Installed, every invocation of the main-hook handler, and of
\* the thread-hook handler, first calls the dispatcher's report with the
\* exception's type, value and traceback and then invokes the captured
\* previous hook exactly once with the original arguments, whether or not
\* reporting is effectively enabled.  Fails when report raises (C3).
C2_ReportThenPreviousHook ==
    /\ (MainHandlerRan /\ reporter_instance # NoRef)
          => ReportedThenChained(last.args, original_excepthook)
    /\ (ThreadHandlerRan /\ reporter_instance # NoRef)
          => ReportedThenChained(ExcOf(last.args), original_thread_excepthook)

\* The dispatcher's report was called by the handler and raised.
ReportRaised ==
    /\ last.events # <<>>
    /\ Head(last.events).ev = "report"
    /\ Head(last.events).raised # None

\* C3: if the dispatcher's report raises during a main-hook or thread-hook
\* handler invocation, the error does not leave the handler and the captured
\* previous hook is still invoked with the original arguments.
C3_HandlerSwallowsReportError ==
    /\ (MainHandlerRan /\ ReportRaised)
          => /\ last.raised = None
             /\ last.events[Len(last.events)] =
                    [ev |-> "hook", hook |-> original_excepthook,
                     args |-> last.args]
    /\ (ThreadHandlerRan /\ ReportRaised)
          => /\ last.raised = None
             /\ last.events[Len(last.events)] =
                    [ev |-> "hook", hook |-> original_thread_excepthook,
                     args |-> last.args]

\* The last operation was reporter.report_exception(...) called directly.
DirectReport == last.op = "Reporter.report_exception"

\* The Reporter the last operation was called on.
Target == reporters[last.ref]

\* Some send of the last report raised; each send that raised, raised an
\* error derived from Exception.
SomeSendRaised ==
    \E i \in EventsOf("send") : last.events[i].raised # None

OnlyExceptionsRaised ==
    \A i \in EventsOf("send") :
        last.events[i].raised # None
            => IsInstance(last.events[i].raised, "Exception")

\* Every sink of the list was invoked once, in list order, with the payload
\* of the report, and report returned.
EverySinkInvoked ==
    /\ Len(last.events) = Len(Target.bridges) + 1
    /\ \A j \in 1..Len(Target.bridges) :
           /\ last.events[j + 1].ev = "send"
           /\ last.events[j + 1].idx = j
           /\ last.events[j + 1].bridge = Target.bridges[j]
           /\ last.events[j + 1].payload =
                  create_exception_payload(last.args, last.scope, "MainThread")
    /\ last.raised = None

BuildFailed ==
    /\ last.events # <<>>
    /\ Head(last.events).ev = "build"
    /\ Head(last.events).raised # None

C6_DisabledConfigurationNoSend ==
    (DirectReport /\ ~ConfigEnabled(Target.config, environ))
        => EventsOf("send") = {}

\* C6 witness: a dispatcher with sinks, enabled while the environment
\* variable was truthy (its internal flag is still set), reported after the
\* variable changed to a falsy value, and invoked no sink.
C6_Witness ==
    /\ DirectReport
    /\ Target.enabled
    /\ Target.bridges # <<>>
    /\ Target.config.enabled = None
    /\ environ = [set |-> TRUE, value |-> <<"0">>]
    /\ last.events = <<>>

FileSendsWithIOError(events) ==
    {i \in 1..Len(events) :
        /\ events[i].ev = "send"
        /\ events[i].bridge.type = "file"
        /\ events[i].met = "OSError"}

\* C10: an I/O error raised while the file sink's send opens, appends to or
\* closes the log file does not leave send; send returns, and dispatcher and
\* hook-manager state are as before.
C10_FileSendCatchesIOError ==
    [][(last'.op = "Reporter.report_exception"
           /\ FileSendsWithIOError(last'.events) # {})
          => /\ \A i \in FileSendsWithIOError(last'.events) :
                    last'.events[i].raised = None
             /\ UNCHANGED <<hookVars, global_reporter, reporters>>]_vars

\* C10 witness: a send of the file sink met an I/O error and returned.
C10_Witness ==
    /\ DirectReport
    /\ \E i \in FileSendsWithIOError(last.events) :
           last.events[i].raised = None /\ ~last.events[i].delivered

\* The last operation was a report or an uncaught exception after a public
\* enable() and then a public disable().
AfterEnableDisable ==
    last.op \in EventOps /\ last.follows.op = "enable; disable"

\* The hook that was active when that enable() was called: what the slot
\* held, or, where it held this library's own handler, the hook that handler
\* passed exceptions on to.
HookBeforeEnable ==
    LET before == last.follows.before
    IN  IF last.op = "sys.excepthook"
        THEN IF before.main = "_exception_handler"
             THEN before.orig_main ELSE before.main
        ELSE IF before.thread = "_thread_exception_handler"
             THEN before.orig_thread ELSE before.thread

\* The last operation did nothing but call `hook` with its arguments.
DeliveredOnlyTo(hook) ==
    last.events = <<[ev |-> "hook", hook |-> hook, args |-> last.args]>>

\* C7 as stated: after the public enable() and then the public disable(),
\* no later event invokes a sink; an uncaught exception is delivered with
\* its arguments to the hook that was active before enable(), a manual
\* report_exception invokes no sink and does not raise.  Fails when the
\* hooks were already installed and other code had replaced a slot before
\* that enable(): disable() restores the hooks captured by the first
\* install, not the ones enable() found.
C7_NothingAfterEnableDisable ==
    AfterEnableDisable
        => /\ EventsOf("send") = {}
           /\ last.raised = None
           /\ last.op = "report_exception" => last.events = <<>>
           /\ last.op # "report_exception" => DeliveredOnlyTo(HookBeforeEnable)

\* C7 amended: after the public enable() and then the public disable(), no
\* later event invokes a sink and none raises; a manual report_exception
\* does nothing; an uncaught exception is delivered with its arguments to
\* the hook that was active before enable(), provided the hooks were not
\* installed when enable() was called.
C7_NothingAfterFirstEnableDisable ==
    AfterEnableDisable
        => /\ EventsOf("send") = {}
           /\ last.raised = None
           /\ last.op = "report_exception" => last.events = <<>>
           /\ (/\ last.op # "report_exception"
               /\ ~is_hooks_installed(last.follows.before))
                 => DeliveredOnlyTo(HookBeforeEnable)

\* C7 witness: a stub was in sys.excepthook, enable() succeeded, disable()
\* followed, and the exception that went uncaught afterwards reached the
\* stub and no sink.
C7_Witness ==
    /\ AfterEnableDisable
    /\ last.op = "sys.excepthook"
    /\ last.follows.ref # NoRef
    /\ last.follows.raised = None
    /\ ~is_hooks_installed(last.follows.before)
    /\ last.follows.before.main = "stub_hook"
    /\ DeliveredOnlyTo("stub_hook")

\* C9 as stated: the configuration error of enable() without sinks is the
\* only error a public operation lets reach its caller; enable() with its
\* sink construction, disable() and report_exception() otherwise complete
\* without raising.  Fails when the parent directory of the log file cannot
\* be created: the error of os.makedirs leaves enable().
C9_OnlyConfigurationErrorPropagates ==
    (last.op \in {"enable", "disable", "report_exception"}
        /\ last.raised # None)
        => (last.op = "enable" /\ last.raised = "RuntimeError")

\* What the body of the network sink's send meets when delivery fails: a
\* transport error (URLError), a timeout (an OSError), a malformed URL (a
\* ValueError), a malformed response from the endpoint (an
\* http.client.HTTPException).
DeliveryFailures == {"URLError", "OSError", "ValueError", "HTTPException"}

\* C11 as stated: every delivery failure of the network sink's send
\* (transport error, timeout, malformed URL, malformed response) is caught
\* inside send; none leaves send.  Fails for a malformed response:
\* http.client.HTTPException is none of URLError, OSError, ValueError.
C11_NetworkSendCatchesDeliveryFailures ==
    \A i \in EventsOf("send") :
        (last.events[i].bridge.type = "http"
            /\ last.events[i].met \in DeliveryFailures)
            => last.events[i].raised = None

\* C12: teardown is idempotent.  Reporter.disable() clears the internal
\* flag and touches nothing else, and a second disable() changes nothing;
\* a second uninstall_hooks() changes nothing; uninstall_hooks() in the
\* Uninstalled state leaves both slots as they are, whatever they hold.
C12_TeardownIdempotent ==
    [][/\ last'.op = "Reporter.disable"
          => /\ reporters'[last'.ref] =
                    [reporters[last'.ref] EXCEPT !.enabled = FALSE]
             /\ \A ref \in DOMAIN reporters \ {last'.ref} :
                    reporters'[ref] = reporters[ref]
             /\ UNCHANGED <<hookVars, global_reporter>>
       /\ (last.op = "Reporter.disable" /\ last'.op = "Reporter.disable"
              /\ last'.ref = last.ref)
          => UNCHANGED reporters
       /\ (last.op = "uninstall_hooks" /\ last'.op = "uninstall_hooks")
          => UNCHANGED <<hookVars, reporters, global_reporter>>
       /\ (last'.op = "uninstall_hooks" /\ ~is_hooks_installed(Hooks))
          => UNCHANGED <<hookVars, reporters, global_reporter>>]_vars

\* C12 witness: uninstall_hooks() ran twice in a row while another hook
\* was in sys.excepthook, and the slot still holds it.
C12_Witness ==
    /\ last.op = "uninstall_hooks"
    /\ last.follows.op = "uninstall_hooks"
    /\ ~is_hooks_installed(last.before)
    /\ last.before.main = "stub_hook"
    /\ sys_excepthook = "stub_hook"

\* C13: is_hooks_installed() is false at the start, and after any sequence
\* of install_hooks(reporter) and uninstall_hooks() calls it is true iff a
\* reporter reference is held, iff the most recent call was an install, iff
\* both previous hooks are captured, iff both slots hold the package's own
\* handlers.
C13_InstalledProxy ==
    /\ last.op = "start" => ~is_hooks_installed(Hooks)
    /\ is_hooks_installed(Hooks) <=> reporter_instance # NoRef
    /\ is_hooks_installed(Hooks) <=> last.op = "install_hooks"
    /\ is_hooks_installed(Hooks)
           <=> (original_excepthook # None
                   /\ original_thread_excepthook # None)
    /\ is_hooks_installed(Hooks)
           <=> (original_excepthook # None
                   \/ original_thread_excepthook # None)
    /\ is_hooks_installed(Hooks)
           <=> (sys_excepthook = "_exception_handler"
                   /\ threading_excepthook = "_thread_exception_handler")
    /\ is_hooks_installed(Hooks)
           <=> (sys_excepthook = "_exception_handler"
                   \/ threading_excepthook = "_thread_exception_handler")

\* C13 witness: installed again after an uninstall, with a second reporter
\* installed over the first.
C13_Witness ==
    /\ last.op = "install_hooks"
    /\ last.cycle = 2
    /\ is_hooks_installed(last.before)
    /\ last.before.instance # last.ref
    /\ is_hooks_installed(Hooks)

\* C14: Config.enabled, for every explicit flag and every value of the
\* environment variable: an explicit True or False is returned as it is,
\* whatever the variable holds; with no explicit flag the result is true iff
\* the variable is set to true, 1, yes or on in any letter case, and false
\* for any other value and when the variable is unset.
C14_ConfigEnabledResolution ==
    last.op = "Config.enabled"
        => LET read == last.events[1]
           IN  /\ read.flag = "True" => read.result = TRUE
               /\ read.flag = "False" => read.result = FALSE
               /\ read.flag = None
                     => (read.result
                            <=> (environ.set
                                    /\ environ.value \in TruthySpellings))

\* C14 witness: no explicit flag, the variable set to "True" with a
\* capital, and Config.enabled read as true.
C14_Witness ==
    /\ last.op = "Config.enabled"
    /\ last.events[1].flag = None
    /\ environ = [set |-> TRUE, value |-> <<"T", "r", "u", "e">>]
    /\ last.events[1].result = TRUE

C16_PayloadFields ==
    (last.op = "create_exception_payload" /\ last.raised = None)
        => LET payload == last.events[1].payload
           IN  /\ payload.exception_type = last.args.exc_type.name
               /\ payload.exception_message = last.args.exc_value.str
               /\ last.scope # None
                     => /\ "scope" \in DOMAIN payload
                        /\ payload.scope = last.scope
               /\ last.scope = None => "scope" \notin DOMAIN payload

\* The reporters the last uncaught exception was reported to.
ReportedTo ==
    {last.events[i].reporter : i \in EventsOf("report")}

\* C18: the previous hooks are captured once per install cycle.  An
\* install_hooks(d2) while installed leaves the saved previous hooks as
\* they are and replaces only the reporter; the uninstall_hooks() after it
\* puts the hooks saved by the first install into both slots; an exception
\* handled by the installed handlers is reported to the reporter installed
\* last and to no other.
C18_CapturedOncePerCycle ==
    [][/\ (last'.op = "install_hooks" /\ is_hooks_installed(Hooks))
          => /\ original_excepthook' = original_excepthook
             /\ original_thread_excepthook' = original_thread_excepthook
             /\ reporter_instance' = last'.ref
             /\ sys_excepthook' = "_exception_handler"
             /\ threading_excepthook' = "_thread_exception_handler"
       /\ (/\ last.op = "install_hooks"
           /\ is_hooks_installed(last.before)
           /\ last'.op = "uninstall_hooks")
          => /\ sys_excepthook' = last.before.orig_main
             /\ threading_excepthook' = last.before.orig_thread
       /\ (/\ last.op = "install_hooks"
           /\ last'.op \in {"sys.excepthook", "threading.excepthook"})
          => ReportedTo' = {last.ref}]_vars

\* C18 witness: install_hooks(d1) captured a stub, install_hooks(d2)
\* followed with another reporter, and uninstall_hooks() put the stub back.
C18_Witness ==
    /\ last.op = "uninstall_hooks"
    /\ last.follows.op = "install_hooks"
    /\ is_hooks_installed(last.follows.before)
    /\ last.follows.before.instance # last.follows.ref
    /\ last.follows.before.main = "_exception_handler"
    /\ last.follows.before.orig_main = "stub_hook"
    /\ sys_excepthook = "stub_hook"
    /\ original_excepthook = None

\* C19: when other code has replaced a slot with its own hook X after
\* install_hooks and before uninstall_hooks, uninstall_hooks() sets the slot
\* to the hook captured at install time; X, unless it is that very hook, is
\* afterwards in no slot and in no captured state.
C19_LaterHookDiscarded ==
    [][(last'.op = "uninstall_hooks" /\ is_hooks_installed(Hooks))
          => /\ sys_excepthook # "_exception_handler"
                => /\ sys_excepthook' = original_excepthook
                   /\ sys_excepthook # original_excepthook
                         => sys_excepthook \notin
                                {sys_excepthook', original_excepthook'}
             /\ threading_excepthook # "_thread_exception_handler"
                => /\ threading_excepthook' = original_thread_excepthook
                   /\ threading_excepthook # original_thread_excepthook
                         => threading_excepthook \notin
                                {threading_excepthook',
                                 original_thread_excepthook'}]_vars

\* C19 witness: a stub was put in sys.excepthook after install_hooks had
\* captured the default hook; uninstall_hooks() restored the default hook
\* and the stub is gone.
C19_Witness ==
    /\ last.op = "uninstall_hooks"
    /\ last.before.instance # NoRef
    /\ last.before.main = "stub_hook"
    /\ last.before.orig_main = "sys.__excepthook__"
    /\ sys_excepthook = "sys.__excepthook__"
    /\ original_excepthook = None

\* C20: the hook manager goes empty, populated, empty.  uninstall_hooks()
\* clears both captured hooks and the reporter reference; install_hooks
\* called when nothing is captured captures the hooks the slots hold at
\* that moment; the uninstall_hooks() of that cycle restores those hooks.
C20_Lifecycle ==
    [][/\ last'.op = "uninstall_hooks"
          => /\ original_excepthook' = None
             /\ original_thread_excepthook' = None
             /\ reporter_instance' = NoRef
       /\ (last'.op = "install_hooks" /\ ~is_hooks_installed(Hooks))
          => /\ original_excepthook' = sys_excepthook
             /\ original_thread_excepthook' = threading_excepthook
             /\ reporter_instance' = last'.ref
       /\ (/\ last.op = "install_hooks"
           /\ ~is_hooks_installed(last.before)
           /\ last'.op = "uninstall_hooks")
          => /\ sys_excepthook' = last.before.main
             /\ threading_excepthook' = last.before.thread]_vars

\* C20 witness: the second cycle began with a stub in sys.excepthook, the
\* first had ended with the default hook there; the uninstall_hooks() of
\* the second cycle restored the stub.
C20_Witness ==
    /\ last.op = "uninstall_hooks"
    /\ last.cycle = 2
    /\ last.follows.op = "install_hooks"
    /\ ~is_hooks_installed(last.follows.before)
    /\ last.follows.before.main = "stub_hook"
    /\ sys_excepthook = "stub_hook"
    /\ original_excepthook = None
    /\ reporter_instance = NoRef

\* The sends among `events` that wrote a record to the file at `path`.
DeliveredSends(events, path) ==
    {i \in 1..Len(events) :
        /\ events[i].ev = "send"
        /\ events[i].bridge.type = "file"
        /\ events[i].bridge.target = path
        /\ events[i].delivered}

\* The Type lines of a file, in file order.
TypeLines(content) ==
    SelectSeq(content, LAMBDA line : line.label = "Type")

\* C17: the file sink only appends.  Every report leaves what the file
\* held as a prefix of what it holds afterwards, and adds one record (one
\* header line "Exception Report", followed by the type and message of the
\* reported exception) for each send to the file that succeeded, and
\* nothing else: n successful sends leave n more records, in the order
\* they were made.
C17_FileAppendOnly ==
    [][\A path \in DOMAIN files :
          LET old == files[path]
              new == files'[path]
              tail == SubSeq(new, Len(old) + 1, Len(new))
          IN  /\ Len(new) >= Len(old)
              /\ SubSeq(new, 1, Len(old)) = old
              /\ Records(new) =
                     Records(old)
                         + Cardinality(DeliveredSends(last'.events, path))
              /\ tail # <<>> => tail[1].label = "Exception Report"
              /\ \A i \in DOMAIN tail :
                     tail[i].label = "Exception Report"
                         => /\ i + 2 <= Len(tail)
                            /\ tail[i + 1] =
                                   [label |-> "Type",
                                    value |-> last'.args.exc_type.name]
                            /\ tail[i + 2] =
                                   [label |-> "Message",
                                    value |-> last'.args.exc_value.str]]_vars

\* C17 witness: three reports reached a file that held a line before; the
\* line is still first and the three records follow in the order made.
C17_Witness ==
    /\ DEFAULT_LOG_FILE \in DOMAIN files
    /\ LET content == files[DEFAULT_LOG_FILE]
       IN  /\ Records(content) = 3
           /\ Head(content).label = "earlier line"
           /\ Len(TypeLines(content)) = 3
           /\ TypeLines(content)[1].value = "ValueError"
           /\ TypeLines(content)[2].value = "KeyError"
           /\ TypeLines(content)[3].value = "ValueError"

\* The last report built its payload once, first, and then only sent: its
\* k-th send went to the k-th sink of the list with the payload of the
\* report, and a send followed another only when that one had returned or
\* had failed with an error the loop catches.
SendsInListOrder ==
    /\ EventsOf("build") = {1}
    /\ Len(last.events) <= Len(Target.bridges) + 1
    /\ \A i \in 2..Len(last.events) :
           /\ last.events[i].ev = "send"
           /\ last.events[i].idx = i - 1
           /\ last.events[i].bridge = Target.bridges[i - 1]
           /\ last.events[i].payload =
                  create_exception_payload(last.args, last.scope, "MainThread")
           /\ i > 2 => \/ last.events[i - 1].raised = None
                       \/ IsInstance(last.events[i - 1].raised, "Exception")

\* Every sink of the list was sent to.
EverySinkSentTo == Len(last.events) = Len(Target.bridges) + 1

\* C21 as stated: an effectively enabled report builds exactly one payload
\* and invokes every sink's send exactly once, in list order, with that
\* payload, each send after the one before it has returned or failed.
\* Fails when the payload cannot be built and when a send raises an error
\* that is not derived from Exception: the sinks after it are not invoked.
C21_FanOutToEverySink ==
    (DirectReport /\ ReporterEnabled(Target, environ))
        => SendsInListOrder /\ EverySinkSentTo

\* C21 amended: an effectively enabled report attempts payload construction
\* exactly once, before any send, and then invokes sinks in list order, each
\* at most once, with that payload, each send after the one before it has
\* returned or failed with an error derived from Exception; it invokes every
\* sink exactly once when the payload is built and no send raises an error
\* that is not derived from Exception.
C21_FanOutInListOrder ==
    (DirectReport /\ ReporterEnabled(Target, environ))
        => /\ SendsInListOrder
           /\ (~BuildFailed /\ OnlyExceptionsRaised) => EverySinkSentTo
           /\ BuildFailed => Len(last.events) = 1

\* C21 witness: a report through a file sink and then a network sink sent
\* to the file sink first and to the network sink second, and both sends
\* returned.
C21_Witness ==
    /\ DirectReport
    /\ ReporterEnabled(Target, environ)
    /\ Len(last.events) = 3
    /\ last.events[2].bridge.type = "file"
    /\ last.events[2].idx = 1
    /\ last.events[2].raised = None
    /\ last.events[3].bridge.type = "http"
    /\ last.events[3].idx = 2
    /\ last.events[3].raised = None
    /\ last.events[2].payload = last.events[3].payload

\* The Reporter objects that exist before and after a step.
Kept == {ref \in DOMAIN reporters :
            reporters[ref] # Free /\ reporters'[ref] # Free}

\* The four stored fields of a held Config are the same after the step.
StoredFieldsKept(ref) == reporters'[ref].config = reporters[ref].config

\* C24 as stated: a Configuration is immutable after construction: its
\* resolved enabled value, sink selection, HTTP endpoint and log file path
\* are the same at every observation, for every later change of the process
\* environment.  Fails for the resolved enabled value of a Config built
\* without an explicit flag: the property reads the environment at each read.
C24_ConfigImmutable ==
    [][\A ref \in Kept :
           /\ StoredFieldsKept(ref)
           /\ ConfigEnabled(reporters'[ref].config, environ')
                  = ConfigEnabled(reporters[ref].config, environ)]_vars

\* C24 amended: the stored fields of a Configuration (explicit flag, sink
\* selection, HTTP endpoint, log file path) never change after construction;
\* its resolved enabled value never changes when an explicit flag was given,
\* and without one it is, at every observation, what the environment
\* variable says at that moment.
C24_StoredFieldsImmutable ==
    [][\A ref \in Kept :
           /\ StoredFieldsKept(ref)
           /\ reporters[ref].config.enabled # None
                  => ConfigEnabled(reporters'[ref].config, environ')
                         = ConfigEnabled(reporters[ref].config, environ)
           /\ reporters[ref].config.enabled = None
                  => ConfigEnabled(reporters'[ref].config, environ')
                         = is_enabled_from_env(environ')]_vars

\* C24 witness: the environment variable was just set to a falsy value and
\* a Config built with the explicit flag True still resolves to enabled.
C24_Witness ==
    /\ last.op = "set environ"
    /\ environ = [set |-> TRUE, value |-> <<"0">>]
    /\ \E ref \in Live :
           /\ reporters[ref].config.enabled = "True"
           /\ reporters[ref].enabled
           /\ ConfigEnabled(reporters[ref].config, environ)

\* The hook manager refers to a Reporter whose configuration resolves to
\* disabled: the one a public enable() built and installed.
InstalledDisabled ==
    /\ reporter_instance # NoRef
    /\ ~ConfigEnabled(reporters[reporter_instance].config, environ)

\* C28: the public enable() installs the hooks even when its configuration
\* resolves to disabled.  Right after it is_hooks_installed() is true, both
\* slots hold this package's handlers, the dispatcher's internal flag is
\* false and, when the hooks were not installed before, the captured hooks
\* are the ones the slots held; while that dispatcher is installed an
\* uncaught exception handled by this package's handler causes no sink
\* invocation, raises nothing and reaches the captured previous hook once
\* with its original arguments; a disable() then puts the captured hooks
\* back in both slots and leaves the hook manager uninstalled.
C28_DisabledConfigurationStillInstalls ==
    [][/\ (/\ last'.op = "enable"
           /\ last'.raised = None
           /\ ~ConfigEnabled(reporters'[global_reporter'].config, environ'))
              => /\ is_hooks_installed(Hooks')
                 /\ reporter_instance' = global_reporter'
                 /\ ~reporters'[global_reporter'].enabled
                 /\ sys_excepthook' = "_exception_handler"
                 /\ threading_excepthook' = "_thread_exception_handler"
                 /\ ~is_hooks_installed(Hooks)
                        => /\ original_excepthook' = sys_excepthook
                           /\ original_thread_excepthook' = threading_excepthook
       /\ (/\ InstalledDisabled
           /\ \/ last'.op = "sys.excepthook"
                 /\ sys_excepthook = "_exception_handler"
              \/ last'.op = "threading.excepthook"
                 /\ threading_excepthook = "_thread_exception_handler")
              => /\ last'.raised = None
                 /\ Len(last'.events) = 2
                 /\ last'.events[1].ev = "report"
                 /\ last'.events[1].reporter = reporter_instance
                 /\ last'.events[2] =
                        [ev |-> "hook",
                         hook |-> IF last'.op = "sys.excepthook"
                                  THEN original_excepthook
                                  ELSE original_thread_excepthook,
                         args |-> last'.args]
       /\ (InstalledDisabled /\ last'.op = "disable")
              => /\ sys_excepthook' = original_excepthook
                 /\ threading_excepthook' = original_thread_excepthook
                 /\ ~is_hooks_installed(Hooks')
                 /\ original_excepthook' = None
                 /\ original_thread_excepthook' = None]_vars

\* C28 witness: enable(enabled=False) was called with a stub in the main
\* slot, and an uncaught exception then reached the stub and no sink.
C28_Witness ==
    /\ InstalledDisabled
    /\ reporter_instance = global_reporter
    /\ ~reporters[reporter_instance].enabled
    /\ reporters[reporter_instance].config.enabled = "False"
    /\ last.op = "sys.excepthook"
    /\ Len(last.events) = 2
    /\ last.events[2].ev = "hook"
    /\ last.events[2].hook = "stub_hook"
    /\ original_excepthook = "stub_hook"

\* The previous-hook calls among the events of the last operation.
ChainedCalls == EventsOf("hook")

\* C26 as stated: in every state reachable by install, uninstall and other
\* code that reads a callback slot and later writes the value back, the
\* captured previous hook is never this package's own handler, and a
\* handler invocation makes at most one report and one previous-hook call
\* and ends without an error of its own.  Fails when other code reads a
\* slot while the hooks are installed and writes the value back after
\* uninstall_hooks(): the next install_hooks() captures the handler itself.
C26_NeverChainsToItself ==
    /\ original_excepthook \notin OwnHandlers
    /\ original_thread_excepthook \notin OwnHandlers
    /\ (MainHandlerRan \/ ThreadHandlerRan)
           => /\ Cardinality(EventsOf("report")) <= 1
              /\ Cardinality(ChainedCalls) <= 1
              /\ last.raised # "RecursionError"

IsSend(event) == event.ev = "send"

\* The sends of the last operation, in the order they were made.
Sends == SelectSeq(last.events, IsSend)

\* The last operation was this package's handler, called by the runtime
\* while a dispatcher was installed.
InstalledHandlerRan ==
    (MainHandlerRan \/ ThreadHandlerRan) /\ reporter_instance # NoRef

\* The handler reported once, to the installed dispatcher and to no other,
\* and every send went to a sink of that dispatcher, in list order, each
\* sink at most once.
ReportedThroughInstalled ==
    /\ EventsOf("report") = {1}
    /\ last.events[1].reporter = reporter_instance
    /\ Len(Sends) <= Len(reporters[reporter_instance].bridges)
    /\ \A k \in 1..Len(Sends) :
           /\ Sends[k].idx = k
           /\ Sends[k].bridge = reporters[reporter_instance].bridges[k]

\* The report the handler made built its payload and no send of it raised
\* an error that is not derived from Exception.
ReportRanToEnd ==
    /\ \E i \in EventsOf("build") : last.events[i].raised = None
    /\ OnlyExceptionsRaised

OncePerSink == Len(Sends) = Len(reporters[reporter_instance].bridges)

\* The last operation was a public enable() that returned and had found the
\* hooks installed: the second enable() since the last disable(), or a
\* later one.
SecondEnable ==
    /\ last.op = "enable"
    /\ last.raised = None
    /\ is_hooks_installed(last.before)

\* A report or an uncaught exception while no dispatcher is referred to
\* invokes no dispatcher and no sink.
NothingWhileTornDown ==
    (last.op \in EventOps /\ global_reporter = NoRef /\ reporter_instance = NoRef)
        => EventsOf("report") = {} /\ EventsOf("send") = {}

\* disable() puts the captured hooks back and drops every dispatcher.
DisableRestoresCaptured ==
    /\ sys_excepthook' = original_excepthook
    /\ threading_excepthook' = original_thread_excepthook
    /\ global_reporter' = NoRef
    /\ reporter_instance' = NoRef
    /\ \A ref \in DOMAIN reporters : reporters'[ref] = Free

\* C27 as stated: after two enable() without a disable() in between, an
\* uncaught exception is reported only through the second call's dispatcher,
\* once per sink; disable() then restores both slots to the hooks present
\* before the first enable(), and afterwards no sink is invoked.  Fails for
\* "once per sink": the second dispatcher invokes no sink when its
\* configuration resolves to disabled or the payload cannot be built, and
\* not every sink when a send raises an error not derived from Exception.
C27_SecondEnableOncePerSink ==
    [][/\ (SecondEnable /\ last'.op \in {"sys.excepthook", "threading.excepthook"})
              => (ReportedThroughInstalled /\ OncePerSink)'
       /\ (SecondEnable /\ last'.op = "disable") => DisableRestoresCaptured
       /\ NothingWhileTornDown']_vars

\* C27 amended: an enable() that returns while the hooks of an earlier
\* enable() are installed replaces the installed dispatcher by its own and
\* leaves the captured hooks alone, the earlier dispatcher being referred to
\* by nothing; an enable() that returns while the hooks are uninstalled
\* captures the hooks the slots hold; while a dispatcher is installed a
\* handled uncaught exception is reported once, to that dispatcher only, each
\* sink at most once and in list order, and once per sink when the dispatcher
\* is effectively enabled, the payload is built and no send raises an error
\* not derived from Exception; disable() restores the captured hooks, and
\* afterwards no dispatcher and no sink is invoked.
C27_SecondEnableSupersedes ==
    [][/\ (last'.op = "enable" /\ last'.raised = None /\ is_hooks_installed(Hooks))
              => /\ reporter_instance' = global_reporter'
                 /\ reporter_instance' \notin {NoRef, reporter_instance}
                 /\ reporters'[reporter_instance] = Free
                 /\ original_excepthook' = original_excepthook
                 /\ original_thread_excepthook' = original_thread_excepthook
                 /\ sys_excepthook' = "_exception_handler"
                 /\ threading_excepthook' = "_thread_exception_handler"
       /\ (last'.op = "enable" /\ last'.raised = None /\ ~is_hooks_installed(Hooks))
              => /\ original_excepthook' = sys_excepthook
                 /\ original_thread_excepthook' = threading_excepthook
       /\ (InstalledHandlerRan
              => /\ ReportedThroughInstalled
                 /\ (/\ ReporterEnabled(reporters[reporter_instance], environ)
                     /\ ReportRanToEnd) => OncePerSink)'
       /\ (is_hooks_installed(Hooks) /\ last'.op = "disable")
              => DisableRestoresCaptured
       /\ NothingWhileTornDown']_vars

\* C27 witness: with a stub in the main slot enable() was called twice, the
\* second call building a dispatcher with two sinks, and the disable() that
\* followed put the stub back.
C27_Witness ==
    /\ last.op = "disable"
    /\ last.follows.op = "enable"
    /\ last.follows.raised = None
    /\ is_hooks_installed(last.follows.before)
    /\ last.follows.before.orig_main = "stub_hook"
    /\ last.follows.ref = 2
    /\ sys_excepthook = "stub_hook"
    /\ threading_excepthook = "threading.__excepthook__"
    /\ global_reporter = NoRef

(* ---------------------------------------------------------------------- *)
(* C25                                                                     *)
(* ---------------------------------------------------------------------- *)

\* The errors of using a global that was cleared after its check: None has
\* no report_exception, and None is not callable.
ClearedUnderHandler == {"AttributeError", "TypeError"}

\* C25: a handler call that interleaves with install_hooks or
\* uninstall_hooks never fails on a dispatcher reference or a previous hook
\* that was cleared between the handler's check and its use.
C25_HandlerNeverUsesCleared ==
    \A unit \in Units : frames[unit].raised \notin ClearedUnderHandler

(* ---------------------------------------------------------------------- *)
(* C22                                                                     *)
(* ---------------------------------------------------------------------- *)

\* The sends a unit's handler call has made, in the order it made them.
FrameSends(unit) == SelectSeq(frames[unit].events, IsSend)

\* The unit's report is past its effective-enabled check: it has attempted
\* the payload.  BuiltOk: the payload was built.
PastCheck(unit) ==
    \E i \in 1..Len(frames[unit].events) : frames[unit].events[i].ev = "build"

BuiltOk(unit) ==
    \E i \in 1..Len(frames[unit].events) :
        /\ frames[unit].events[i].ev = "build"
        /\ frames[unit].events[i].raised = None

\* The unit's report has left its loop over the sinks.
LoopOver(unit) ==
    frames[unit].pc \in {"check_original", "call_original", "done"}

\* The unit's report has sent to every sink of the dispatcher once, in
\* list order.
SentToEverySink(unit) ==
    /\ Len(FrameSends(unit)) = Len(reporters[1].bridges)
    /\ \A i \in 1..Len(FrameSends(unit)) :
           /\ FrameSends(unit)[i].idx = i
           /\ FrameSends(unit)[i].bridge = reporters[1].bridges[i]

\* No send of the unit's report raised an error that is not an Exception.
NoSendLeftTheLoop(unit) ==
    \A i \in 1..Len(FrameSends(unit)) :
        \/ FrameSends(unit)[i].raised = None
        \/ IsInstance(FrameSends(unit)[i].raised, "Exception")

\* The unit's exception went uncaught while the hooks were installed and
\* the installed dispatcher was effectively enabled.
BeganInForce(unit) ==
    frames[unit].began.installed /\ frames[unit].began.enabled

NeverTornDown ==
    /\ is_hooks_installed(Hooks)
    /\ last.op = "install_hooks"
    /\ last.cycle = 1
    /\ ReporterEnabled(reporters[reporter_instance], environ)

\* The units whose exception went uncaught while Installed and effectively
\* enabled, and those whose handler call has sent to sink i.
ReportsInForce == {unit \in Units : BeganInForce(unit)}

SentTo(i) ==
    {unit \in Units :
        \E j \in 1..Len(FrameSends(unit)) : FrameSends(unit)[j].idx = i}

\* The sends of every unit's report were made in list order, each sink at
\* most once per report.
EachReportInListOrder ==
    \A unit \in Units :
        /\ Len(FrameSends(unit)) <= Len(reporters[1].bridges)
        /\ \A j \in 1..Len(FrameSends(unit)) :
               /\ FrameSends(unit)[j].idx = j
               /\ FrameSends(unit)[j].bridge = reporters[1].bridges[j]

\* C23 as stated: once the overlapping handler calls have ended, every sink
\* has received exactly as many sends as there were reports, and each
\* report's sends were made in list order.  Fails when a payload cannot be
\* built and when a send raises an error that is not an Exception.
C23_ExactlyOneSendPerReport ==
    /\ EachReportInListOrder
    /\ (NeverTornDown /\ \A unit \in Units : frames[unit].pc \in {"idle", "done"})
           => \A i \in 1..Len(reporters[1].bridges) :
                  /\ SentTo(i) = ReportsInForce
                  /\ \A unit \in Units : Len(FrameSends(unit)) \in
                         {0, Len(reporters[1].bridges)}

\* C23, amended: each report's sends are made in list order, each sink at
\* most once; while Installed and effectively enabled every report attempts
\* its payload, and the reports whose payload was built and whose sends
\* raised nothing but Exceptions have each sent to every sink exactly once,
\* however the calls overlapped.
C23_NoReportLostOrDuplicated ==
    /\ EachReportInListOrder
    /\ NeverTornDown =>
           \A unit \in ReportsInForce :
               LoopOver(unit) =>
                   /\ PastCheck(unit)
                   /\ (BuiltOk(unit) /\ NoSendLeftTheLoop(unit))
                          => /\ SentToEverySink(unit)
                             /\ \A i \in 1..Len(reporters[1].bridges) :
                                    unit \in SentTo(i)

\* Two reports overlapped and each sent to both sinks: one of them made a
\* send while the other was between its two sends.
C23_Witness ==
    /\ NeverTornDown
    /\ Cardinality(ReportsInForce) >= 2
    /\ \A unit \in ReportsInForce :
           frames[unit].pc = "done" /\ SentToEverySink(unit)
    /\ \E unit \in ReportsInForce :
           \E j \in 1..Len(FrameSends(unit)) :
               FrameSends(unit)[j].between # {}

====
